---- MODULE Spec2Model ----
(***************************************************************************)
(* Hamlib UI (src/Hamlib_UI.py): the installation tree and its resolver,   *)
(* the release installer, the three daemon runners (HamlibRunner) and the  *)
(* main-window handlers that drive them.                                   *)
(***************************************************************************)
EXTENDS Integers, Sequences, FiniteSets, TLC

(***************************************************************************)
(* Bounds of the model.                                                    *)
(***************************************************************************)
MaxSubs == 2
MaxMtime == 2
MaxAssets == 2
MaxChunks == 2
MaxSpawns == 2      \* processes spawned in one session, over the three kinds
MaxLines == 1       \* output lines a daemon writes
MaxInstalls == 3    \* clicks on the download button in one session
MaxText == 3        \* lines of a listing handed to a parser

(***************************************************************************)
(* The installation tree under HAMLIB_DIR.                                 *)
(*   root    : HAMLIB_DIR exists                                           *)
(*   sub[d]  : immediate subdirectory d; mtime 0 means it does not exist,  *)
(*             bin is the set of executables in d/bin                      *)
(*   bin     : the executables in HAMLIB_DIR/bin (flat layout)             *)
(*   archive : the downloaded archive file kept in the root                *)
(***************************************************************************)
RigExe == "rigctld.exe"
RotExe == "rotctld.exe"
AmpExe == "ampctld.exe"
Exes == {RigExe, RotExe, AmpExe}

Subs == 1..MaxSubs
NoDir == [mtime |-> 0, bin |-> {}]
Dirs == {NoDir} \cup [mtime : 1..MaxMtime, bin : SUBSET Exes]
ArchiveStates == {"none", "partial", "full"}

NoTree == [root |-> FALSE, sub |-> [d \in Subs |-> NoDir], bin |-> {}, archive |-> "none"]
Trees == {NoTree} \cup [root : {TRUE}, sub : [Subs -> Dirs], bin : SUBSET Exes, archive : ArchiveStates]

\* A path d/bin/name is <<d, name>>; d = 0 is HAMLIB_DIR itself. None is <<>>.
None == <<>>
BinOf(fs, d) == IF d = 0 THEN fs.bin ELSE fs.sub[d].bin

\* get_latest_bin_dir: the bin directories the call may return (-1 for None).
\* max() returns the first maximal candidate in iterdir order, which the file
\* system decides: with equal mtimes any of them.
get_latest_bin_dir(fs) ==
    IF ~fs.root THEN {-1}
    ELSE LET candidates == {d \in Subs : RigExe \in fs.sub[d].bin}
         IN  IF candidates # {}
             THEN {d \in candidates : \A e \in candidates : fs.sub[e].mtime <= fs.sub[d].mtime}
             ELSE IF RigExe \in fs.bin THEN {0} ELSE {-1}

\* os.walk(HAMLIB_DIR): the first directory holding the name, in listing order.
walk(fs, name) ==
    LET found == {d \in 0..MaxSubs : name \in BinOf(fs, d)}
    IN  IF found = {} THEN {None} ELSE {<<d, name>> : d \in found}

\* find_exe: the set of paths the call may return.
find_exe(fs, name) ==
    UNION {IF bin_dir # -1 /\ name \in BinOf(fs, bin_dir)
           THEN {<<bin_dir, name>>}
           ELSE walk(fs, name) : bin_dir \in get_latest_bin_dir(fs)}

(***************************************************************************)
(* The release installer, download_latest_release.                         *)
(* Its inputs are what the network and the archive deliver:                *)
(*   feed    : the releases query answered with a descriptor               *)
(*   assets  : the descriptor's assets; zip = name ends with ".zip",       *)
(*             w64 = name contains "w64" (both on the lower-cased name)    *)
(*   zipball : the descriptor carries zipball_url                          *)
(*   get     : the download request succeeded                              *)
(*   total   : Content-Length (0 when absent)                              *)
(*   chunks  : the chunks the stream delivers, one unit each               *)
(*   failAt  : 0, or the chunk whose read raises                           *)
(*   zip     : the content of the downloaded archive                       *)
(***************************************************************************)
Assets == [zip : BOOLEAN, w64 : BOOLEAN]
AssetSeqs == UNION {[1..n -> Assets] : n \in 0..MaxAssets}

Corrupt == [ok |-> FALSE, layout |-> "none", exes |-> {}]
Archives == {Corrupt,
             [ok |-> TRUE, layout |-> "versioned", exes |-> Exes],
             [ok |-> TRUE, layout |-> "versioned", exes |-> {RotExe, AmpExe}],
             [ok |-> TRUE, layout |-> "flat", exes |-> Exes],
             [ok |-> TRUE, layout |-> "versioned", exes |-> {}]}

Inputs == {i \in [feed : BOOLEAN, assets : AssetSeqs, zipball : BOOLEAN, get : BOOLEAN,
                  total : 0..MaxChunks, chunks : 0..MaxChunks, failAt : 0..MaxChunks,
                  zip : Archives] : i.failAt <= i.chunks}

\* Lines 65-81: the chosen download. <<"asset", i>> is assets[i]'s
\* browser_download_url, <<"zipball">> the source archive, None no URL.
\* The index at which a for-loop with break stops: the first hit, 0 for none.
FirstHit(hits) ==
    IF hits = {} THEN 0 ELSE CHOOSE i \in hits : \A j \in hits : i <= j

IsW64Zip(a) == a.zip /\ a.w64
IsZip(a) == a.zip

SelectW64First(in) ==
    LET w == FirstHit({i \in 1..Len(in.assets) : IsW64Zip(in.assets[i])})
        z == FirstHit({i \in 1..Len(in.assets) : IsZip(in.assets[i])})
    IN  IF w # 0 THEN <<"asset", w>>
        ELSE IF z # 0 THEN <<"asset", z>>
        ELSE IF in.zipball THEN <<"zipball">> ELSE None

\* The selection without the platform preference: the first zip asset.
SelectFirstZip(in) ==
    LET z == FirstHit({i \in 1..Len(in.assets) : IsZip(in.assets[i])})
    IN  IF z # 0 THEN <<"asset", z>>
        ELSE IF in.zipball THEN <<"zipball">> ELSE None

select_asset(in) == SelectW64First(in)

\* Lines 95-98: every entry of the root but the archive is removed.
clear_root(fs) == [fs EXCEPT !.sub = [d \in Subs |-> NoDir], !.bin = {}]

\* Lines 99-100: extractall into the (cleared) root.
extract(fs, zip) ==
    IF zip.layout = "flat" THEN [fs EXCEPT !.bin = zip.exes]
    ELSE [fs EXCEPT !.sub[1] = [mtime |-> MaxMtime, bin |-> zip.exes]]

\* The progress values passed to the callback: <<downloaded, total>> per chunk.
progress_of(in, written) ==
    IF in.total = 0 THEN <<>> ELSE [c \in 1..written |-> <<c, in.total>>]

Result(ok, stage, fs, url, cleared, prog) ==
    [ok |-> ok, stage |-> stage, fs |-> fs, url |-> url, cleared |-> cleared, progress |-> prog]

InstallDownloadFirst(fs, in) ==
    IF ~in.feed THEN Result(FALSE, "feed", fs, None, FALSE, <<>>)
    ELSE
    LET url == select_asset(in)
        made == [fs EXCEPT !.root = TRUE]                 \* ensure_hamlib_dir
    IN  IF url = None \/ ~in.get THEN Result(FALSE, "download", made, url, FALSE, <<>>)
        ELSE
        LET opened == [made EXCEPT !.archive = "partial"]  \* open(dest, 'wb')
        IN  IF in.failAt # 0
            THEN Result(FALSE, "download", opened, url, FALSE, progress_of(in, in.failAt - 1))
            ELSE
            LET got == [opened EXCEPT !.archive = "full"]
                cleared == clear_root(got)
                prog == progress_of(in, in.chunks)
            IN  IF ~in.zip.ok THEN Result(FALSE, "extract", cleared, url, TRUE, prog)
                ELSE Result(TRUE, "done", extract(cleared, in.zip), url, TRUE, prog)

\* The installer with the root cleared before the download instead of after it.
InstallClearFirst(fs, in) ==
    IF ~in.feed THEN Result(FALSE, "feed", fs, None, FALSE, <<>>)
    ELSE
    LET url == select_asset(in)
        made == clear_root([fs EXCEPT !.root = TRUE])
    IN  IF url = None \/ ~in.get THEN Result(FALSE, "download", made, url, TRUE, <<>>)
        ELSE
        LET opened == [made EXCEPT !.archive = "partial"]
        IN  IF in.failAt # 0
            THEN Result(FALSE, "download", opened, url, TRUE, progress_of(in, in.failAt - 1))
            ELSE
            LET got == [opened EXCEPT !.archive = "full"]
                prog == progress_of(in, in.chunks)
            IN  IF ~in.zip.ok THEN Result(FALSE, "extract", got, url, TRUE, prog)
                ELSE Result(TRUE, "done", extract(got, in.zip), url, TRUE, prog)

download_latest_release(fs, in) == InstallDownloadFirst(fs, in)

(***************************************************************************)
(* State.                                                                  *)
(***************************************************************************)
VARIABLES
    fsys,      \* the installation tree
    job,       \* the call under study: its arguments, then its result
    before,    \* the tree when the call was made
    process,         \* HamlibRunner.process per kind: 0 is None, else the process it holds
    procs,           \* per kind, the child processes spawned so far, in order
    events,          \* per kind, the runner's signals queued for the main thread
    connectEnabled,  \* per kind, the Connect button
    stopEnabled,     \* per kind, the Stop button
    radio_combo,     \* the radio combo box: its item count and current index
    rig_probes,      \* RigctlListThreads started and not yet run
    rig_results,     \* their result signals queued for the main thread
    dl,              \* the install controls: download button, progress dialog,
                     \* connections made on DownloadThread.signals, threads, queue
    closed,          \* the main window was closed and the application left
    out,             \* what the latest step emitted or appended to the output view
    plan,            \* the session explored: how many processes it may spawn
                     \* and how many installs it may start
    settings,        \* the QSettings store: per kind the stored id, 0 is ""
    dev_combo,       \* the rotor and amplifier combo boxes: item count, current index
    dev_probes,      \* per device kind, list threads started and not yet run
    dev_results,     \* per device kind, their result signals queued for the main thread
    restore_timer    \* the single-shot timer of load_settings has not fired yet

fnvars == <<job, before>>
runvars == <<process, procs, events, connectEnabled, stopEnabled>>
appvars == <<radio_combo, rig_probes, rig_results, dl, closed, out, plan>>
catvars == <<settings, dev_combo, dev_probes, dev_results, restore_timer>>
vars == <<fsys, job, before, process, procs, events, connectEnabled, stopEnabled,
          radio_combo, rig_probes, rig_results, dl, closed, out, plan,
          settings, dev_combo, dev_probes, dev_results, restore_timer>>

Kinds == {"radio", "rotor", "amp"}
ExeOf(k) == IF k = "radio" THEN RigExe ELSE IF k = "rotor" THEN RotExe ELSE AmpExe

\* The kinds whose tab is a device tab (rot_combo line 383, amp_combo line 403).
DevKinds == {"rotor", "amp"}

\* MainWindow.__init__ (lines 283-298) and the _init_*_tab methods: no process,
\* Connect enabled, Stop disabled, empty combo boxes, one list thread started
\* per kind (lines 295-296), nothing queued, the restore timer armed by
\* load_settings (line 338).
InitCatalogs ==
    /\ dev_combo = [k \in DevKinds |-> [count |-> 0, index |-> -1]]
    /\ dev_probes = [k \in DevKinds |-> 1]
    /\ dev_results = [k \in DevKinds |-> <<>>]
    /\ restore_timer = TRUE

InitApp ==
    /\ InitCatalogs
    /\ settings = [k \in Kinds |-> 0]
    /\ process = [k \in Kinds |-> 0]
    /\ procs = [k \in Kinds |-> <<>>]
    /\ events = [k \in Kinds |-> <<>>]
    /\ connectEnabled = [k \in Kinds |-> TRUE]
    /\ stopEnabled = [k \in Kinds |-> FALSE]
    /\ radio_combo = [count |-> 0, index |-> -1]
    /\ rig_probes = 1
    /\ rig_results = <<>>
    /\ dl = [enabled |-> TRUE, dialog |-> FALSE, conns |-> 0, threads |-> {},
             queue |-> <<>>, handled |-> {}]
    /\ closed = FALSE
    /\ out = <<>>
    /\ plan = [spawns |-> 0, installs |-> 0]

\* The function runs leave the application as constructed.
IdleApp == InitApp

(***************************************************************************)
(* HamlibRunner and the handlers of its buttons and signals.               *)
(*                                                                         *)
(* A child process is a record of procs[k]:                                *)
(*   alive  : the operating-system process has not exited                  *)
(*   term   : terminate() was called on it                                 *)
(*   reader : its _reader_thread: "none" (never started, or gone with the  *)
(*            application), "read" (in the stdout loop), "done"            *)
(*   stops  : the stopped signals emitted for it                           *)
(* process[k] is the index in procs[k] of the process the runner holds.    *)
(*                                                                         *)
(* started and the start/stop messages are emitted on the main thread and  *)
(* reach their slots at once; what the reader thread emits is queued in    *)
(* events[k] and handled later on the main thread, in order.               *)
(***************************************************************************)
Spawned == Len(procs["radio"]) + Len(procs["rotor"]) + Len(procs["amp"])
NewProc(r) == [alive |-> TRUE, term |-> FALSE, reader |-> r, stops |-> 0]

\* The main window takes clicks: no modal progress dialog is up, and it is open.
UserCan == ~dl.dialog /\ ~closed

\* The user of the session works the daemon tabs at all.
UsesTabs == UserCan /\ plan.spawns > 0

\* Lines 436-441: the radio tab needs a selected item; the other tabs do not ask.
HasData(k) == k # "radio" \/ radio_combo.index >= 0

\* Line 467, then start's outcomes as lists of what is emitted.
Starting(k) == <<k, "log", "Starting">>

\* Connect with no radio selected: the warning box, and nothing else (lines 439-441).
StartNoData(k) ==
    /\ UsesTabs /\ connectEnabled[k] /\ ~HasData(k)
    /\ out' = << <<k, "warning", "Select radio">> >>
    /\ UNCHANGED <<fsys, fnvars, catvars, runvars, radio_combo, rig_probes, rig_results, dl, closed, plan>>

\* Line 259: a process is held.
StartAlreadyRunning(k) ==
    /\ UsesTabs /\ connectEnabled[k] /\ HasData(k)
    /\ process[k] # 0
    /\ out' = << Starting(k), <<k, "output", "Already running">> >>
    /\ UNCHANGED <<fsys, fnvars, catvars, runvars, radio_combo, rig_probes, rig_results, dl, closed, plan>>

\* Lines 260-261: the executable is not found.
StartNotFound(k) ==
    /\ UsesTabs /\ connectEnabled[k] /\ HasData(k)
    /\ process[k] = 0
    /\ out' = << Starting(k), <<k, "output", "not found!">> >>
    /\ None \in find_exe(fsys, ExeOf(k))
    /\ UNCHANGED <<fsys, fnvars, catvars, runvars, radio_combo, rig_probes, rig_results, dl, closed, plan>>

\* A variant of the failed spawn in which started is emitted before Popen is
\* tried: the buttons flip although nothing runs.
StartPopenFailsAfterStarted(k) ==
    /\ UsesTabs /\ connectEnabled[k] /\ HasData(k)
    /\ process[k] = 0
    /\ out' = << Starting(k), <<k, "started">>, <<k, "output", "Failed to start">> >>
    /\ find_exe(fsys, ExeOf(k)) # {None}
    /\ connectEnabled' = [connectEnabled EXCEPT ![k] = FALSE]
    /\ stopEnabled' = [stopEnabled EXCEPT ![k] = TRUE]
    /\ UNCHANGED <<fsys, fnvars, catvars, process, procs, events, radio_combo, rig_probes,
                   rig_results, dl, closed, plan>>

\* Lines 263 and 267-268: Popen raises; nothing was spawned.
StartPopenFails(k) ==
    /\ UsesTabs /\ connectEnabled[k] /\ HasData(k)
    /\ process[k] = 0
    /\ out' = << Starting(k), <<k, "output", "Failed to start">> >>
    /\ find_exe(fsys, ExeOf(k)) # {None}
    /\ UNCHANGED <<fsys, fnvars, catvars, runvars, radio_combo, rig_probes, rig_results, dl, closed, plan>>

\* A variant of the started slot whose lambda binds the runner late: every
\* connection then names the last runner of the loop, the amplifier's.
on_runner_started_late(k) ==
    /\ connectEnabled' = [connectEnabled EXCEPT !["amp"] = FALSE]
    /\ stopEnabled' = [stopEnabled EXCEPT !["amp"] = TRUE]

\* _on_runner_started (lines 472-475).
on_runner_started(k) ==
    /\ connectEnabled' = [connectEnabled EXCEPT ![k] = FALSE]
    /\ stopEnabled' = [stopEnabled EXCEPT ![k] = TRUE]

\* Lines 263-266: the process is spawned, started is emitted, the reader runs.
StartSpawns(k) ==
    /\ UsesTabs /\ connectEnabled[k] /\ HasData(k)
    /\ process[k] = 0
    /\ out' = << Starting(k), <<k, "started">> >>
    /\ find_exe(fsys, ExeOf(k)) # {None}
    /\ Spawned < plan.spawns
    /\ procs' = [procs EXCEPT ![k] = Append(@, NewProc("read"))]
    /\ process' = [process EXCEPT ![k] = Len(procs[k]) + 1]
    /\ on_runner_started(k)
    /\ UNCHANGED <<fsys, fnvars, catvars, events, radio_combo, rig_probes, rig_results, dl, closed, plan>>

\* Lines 263-268: the process is spawned and started is emitted, then
\* Thread.start raises: the handler reports the failure and drops the handle.
StartThreadFails(k) ==
    /\ UsesTabs /\ connectEnabled[k] /\ HasData(k)
    /\ process[k] = 0
    /\ out' = << Starting(k), <<k, "started">>, <<k, "output", "Failed to start">> >>
    /\ find_exe(fsys, ExeOf(k)) # {None}
    /\ Spawned < plan.spawns
    /\ procs' = [procs EXCEPT ![k] = Append(@, NewProc("none"))]
    /\ process' = [process EXCEPT ![k] = 0]
    /\ on_runner_started(k)
    /\ UNCHANGED <<fsys, fnvars, catvars, events, radio_combo, rig_probes, rig_results, dl, closed, plan>>

\* HamlibRunner.start, as _start_runner reaches it.
start(k) ==
    \/ StartAlreadyRunning(k)
    \/ StartNotFound(k)
    \/ StartPopenFails(k)
    \/ StartSpawns(k)
    \/ StartThreadFails(k)

\* A variant of stop that, besides terminate(), emits stopped itself for the
\* held process, as the reader will do again when the process is gone.
RunnerStopSignals(k) ==
    /\ procs' = IF process[k] # 0
                THEN [procs EXCEPT ![k][process[k]].term = @ \/ procs[k][process[k]].alive,
                                   ![k][process[k]].stops = @ + 1]
                ELSE procs
    /\ events' = IF process[k] # 0
                 THEN [events EXCEPT ![k] = Append(@, <<"stopped", process[k]>>)]
                 ELSE events
    /\ UNCHANGED process

\* A variant of stop that forgets the process at once instead of leaving the
\* handle to the reader.
RunnerStopClears(k) ==
    /\ procs' = IF process[k] # 0
                THEN [procs EXCEPT ![k][process[k]].term = @ \/ procs[k][process[k]].alive]
                ELSE procs
    /\ process' = [process EXCEPT ![k] = 0]
    /\ UNCHANGED events

\* HamlibRunner.stop (lines 278-281): terminate() on the held process, if any.
RunnerStop(k) ==
    /\ procs' = IF process[k] # 0
                THEN [procs EXCEPT ![k][process[k]].term = @ \/ procs[k][process[k]].alive]
                ELSE procs
    /\ UNCHANGED <<process, events>>

\* _stop_runner (lines 469-471): runner.stop(), then the line in the output view.
stop_runner(k) ==
    /\ UsesTabs /\ stopEnabled[k]
    /\ RunnerStop(k)
    /\ out' = << <<k, "log", "stopped">> >>
    /\ UNCHANGED <<fsys, fnvars, catvars, connectEnabled, stopEnabled, radio_combo, rig_probes,
                   rig_results, dl, closed, plan>>

\* The child process exits, by itself or after terminate().
ProcessExit(k, i) ==
    /\ procs[k][i].alive
    /\ procs' = [procs EXCEPT ![k][i].alive = FALSE]
    /\ out' = <<>>
    /\ UNCHANGED <<fsys, fnvars, catvars, process, events, connectEnabled, stopEnabled,
                   radio_combo, rig_probes, rig_results, dl, closed, plan>>

\* The output lines of runner k waiting in the main thread's queue.
PendingLines(k) == Cardinality({j \in 1..Len(events[k]) : events[k][j][1] = "output"})

\* _reader_thread, lines 272-273: one line read and emitted.
ReaderLine(k, i) ==
    /\ ~closed
    /\ procs[k][i].reader = "read"
    /\ PendingLines(k) < MaxLines
    /\ events' = [events EXCEPT ![k] = Append(@, <<"output", i>>)]
    /\ out' = <<>>
    /\ UNCHANGED <<fsys, fnvars, catvars, process, procs, connectEnabled, stopEnabled,
                   radio_combo, rig_probes, rig_results, dl, closed, plan>>

\* _reader_thread, lines 272-277: end of stream once the process has exited,
\* wait() returns, then the finally block: process = None and stopped emitted.
\* (The two statements are one step: nothing on the main thread tells a state
\* between them from the state before them.)
ReaderEnds(k, i) ==
    /\ process' = [process EXCEPT ![k] = 0]
    /\ procs' = [procs EXCEPT ![k][i].reader = "done", ![k][i].stops = @ + 1]
    /\ events' = [events EXCEPT ![k] = Append(@, <<"stopped", i>>)]

ReaderEof(k, i) ==
    /\ ~closed
    /\ procs[k][i].reader = "read" /\ ~procs[k][i].alive
    /\ ReaderEnds(k, i)
    /\ out' = <<>>
    /\ UNCHANGED <<fsys, fnvars, catvars, connectEnabled, stopEnabled,
                   radio_combo, rig_probes, rig_results, dl, closed, plan>>

\* _on_runner_stopped (lines 476-479).
on_runner_stopped(k) ==
    /\ connectEnabled' = [connectEnabled EXCEPT ![k] = TRUE]
    /\ stopEnabled' = [stopEnabled EXCEPT ![k] = FALSE]

\* A variant of the delivery that takes the newest queued signal of runner k
\* first instead of the oldest.
DeliverNewest(k) ==
    /\ ~closed
    /\ events[k] # <<>>
    /\ events' = [events EXCEPT ![k] = SubSeq(@, 1, Len(@) - 1)]
    /\ IF events[k][Len(events[k])][1] = "stopped"
       THEN on_runner_stopped(k) /\ out' = <<>>
       ELSE UNCHANGED <<connectEnabled, stopEnabled>> /\ out' = << <<k, "output", "line">> >>
    /\ UNCHANGED <<fsys, fnvars, catvars, process, procs, radio_combo, rig_probes, rig_results,
                   dl, closed, plan>>

\* The main thread handles the oldest queued signal of runner k:
\* _append_output for a line, _on_runner_stopped for stopped.
Deliver(k) ==
    /\ ~closed
    /\ events[k] # <<>>
    /\ events' = [events EXCEPT ![k] = Tail(@)]
    /\ IF Head(events[k])[1] = "stopped"
       THEN on_runner_stopped(k) /\ out' = <<>>
       ELSE UNCHANGED <<connectEnabled, stopEnabled>> /\ out' = << <<k, "output", "line">> >>
    /\ UNCHANGED <<fsys, fnvars, catvars, process, procs, radio_combo, rig_probes, rig_results,
                   dl, closed, plan>>

(***************************************************************************)
(* Resolver runs: find_exe(name) on any tree.                              *)
(***************************************************************************)
ResolveTrees == {t \in Trees : t.archive = "none"}

InitResolve ==
    /\ fsys \in ResolveTrees
    /\ \E n \in Exes : job = [op |-> "find_exe", name |-> n, done |-> FALSE, path |-> None]
    /\ before = fsys
    /\ IdleApp

Resolve ==
    /\ job.op = "find_exe" /\ ~job.done
    /\ \E p \in find_exe(fsys, job.name) : job' = [job EXCEPT !.done = TRUE, !.path = p]
    /\ UNCHANGED <<fsys, before, runvars, appvars, catvars>>

NextResolve == Resolve

SpecResolve == InitResolve /\ [][NextResolve]_vars

(***************************************************************************)
(* Installer runs: one download_latest_release call on a tree.             *)
(***************************************************************************)
FullDir(m) == [mtime |-> m, bin |-> Exes]
InstallTrees ==
    {NoTree,
     [root |-> TRUE, sub |-> [d \in Subs |-> NoDir], bin |-> {}, archive |-> "none"],
     [root |-> TRUE, sub |-> [d \in Subs |-> IF d = 1 THEN FullDir(1) ELSE NoDir],
      bin |-> {}, archive |-> "full"],
     [root |-> TRUE, sub |-> [d \in Subs |-> IF d = 1 THEN FullDir(1) ELSE
                                             IF d = 2 THEN [mtime |-> MaxMtime, bin |-> {RotExe}]
                                             ELSE NoDir],
      bin |-> {AmpExe}, archive |-> "none"],
     [root |-> TRUE, sub |-> [d \in Subs |-> NoDir], bin |-> Exes, archive |-> "partial"]}

InitInstall ==
    /\ fsys \in InstallTrees
    /\ \E i \in Inputs : job = [op |-> "install", in |-> i, done |-> FALSE,
                                res |-> Result(FALSE, "feed", fsys, None, FALSE, <<>>)]
    /\ before = fsys
    /\ IdleApp

RunInstall ==
    /\ job.op = "install" /\ ~job.done
    /\ LET r == download_latest_release(fsys, job.in)
       IN  /\ job' = [job EXCEPT !.done = TRUE, !.res = r]
           /\ fsys' = r.fs
    /\ UNCHANGED <<before, runvars, appvars, catvars>>

NextInstall == RunInstall

SpecInstall == InitInstall /\ [][NextInstall]_vars

(***************************************************************************)
(* Catalog parsing: parse_rig_list and parse_device_list.                  *)
(* A line of the listing is described by what the parser asks of it:       *)
(*   marker : the parser's header pattern is found in the line             *)
(*   shape  : "blank" (nothing but white space), "short" (fewer than three *)
(*            fields after the split on runs of two or more blanks),       *)
(*            "text" (three fields, the first not an integer), "data"      *)
(*            (three fields or more, the first an integer)                 *)
(*   id     : the integer of the first field of a "data" line              *)
(***************************************************************************)
Ids == {1, 2}
TextLines ==
    {[marker |-> FALSE, shape |-> "blank", id |-> 0]}
    \cup [marker : BOOLEAN, shape : {"short", "text"}, id : {0}]
    \cup [marker : BOOLEAN, shape : {"data"}, id : Ids]
Texts == UNION {[1..n -> TextLines] : n \in 0..MaxText}

\* Lines 146-150 and 169-173: the index after the first line with the header
\* pattern; 0, the start of the text, when no line has it.
data_start(lines) == FirstHit({i \in 1..Len(lines) : lines[i].marker})

\* Lines 152-161 and 175-184: the three continue statements.
Skipped(line) == line.shape \in {"blank", "short", "text"}

\* Lines 162-165 and 185-188: the record appended for a line.
RecordOf(line) == [id |-> line.id]

\* Lines 151-165 and 174-188: the loop over lines[start:].
RECURSIVE parse_from(_, _)
parse_from(lines, i) ==
    IF i > Len(lines) THEN <<>>
    ELSE IF Skipped(lines[i]) THEN parse_from(lines, i + 1)
    ELSE <<RecordOf(lines[i])>> \o parse_from(lines, i + 1)

parse_rig_list(lines) == parse_from(lines, data_start(lines) + 1)
parse_device_list(lines) == parse_from(lines, data_start(lines) + 1)

InitParse ==
    /\ fsys = NoTree
    /\ before = NoTree
    /\ \E f \in {"parse_rig_list", "parse_device_list"} : \E t \in Texts :
           job = [op |-> f, text |-> t, done |-> FALSE, recs |-> <<>>]
    /\ IdleApp

Parse ==
    /\ job.op \in {"parse_rig_list", "parse_device_list"} /\ ~job.done
    /\ job' = [job EXCEPT !.done = TRUE,
                          !.recs = IF job.op = "parse_rig_list"
                                   THEN parse_rig_list(job.text)
                                   ELSE parse_device_list(job.text)]
    /\ UNCHANGED <<fsys, before, runvars, appvars, catvars>>

NextParse == Parse

SpecParse == InitParse /\ [][NextParse]_vars

(***************************************************************************)
(* The argument vector of a start request: _start_runner, lines 434-468.   *)
(* data is the current item's data of the tab's model combo box (NoItem    *)
(* when the box is empty or nothing is current); cfg is what the tab's     *)
(* other widgets hold. An argument is <<flag, value>> or <<flag>>.         *)
(***************************************************************************)
\* Manufacturer names and the CI-V field are texts the code searches and
\* trims, so they are sequences of characters.
NoItem == [id |-> 0, mfg |-> <<>>, model |-> ""]
Items == {NoItem,
          [id |-> 1, mfg |-> <<"Y", "a", "e", "s", "u">>, model |-> "FT-817"],
          [id |-> 3073, mfg |-> <<"I", "c", "o", "m">>, model |-> "IC-7300"],
          [id |-> 3085, mfg |-> <<"I", "C", "O", "M">>, model |-> "IC-705"],
          [id |-> 9001, mfg |-> <<"M", "i", "c", "o", "m">>, model |-> "2/3"]}
Configs == [device : {"", "COM1"}, baud : {"", "9600"},
            civ : {<<>>, <<" ">>, <<"9", "4", "h">>, <<" ", "9", "4", "h">>},
            ptt : BOOLEAN, ptt_port : {"", "COM2"}, ptt_type : {"RTS"}]
TcpPort(tab) == IF tab = "radio" THEN 4532 ELSE IF tab = "rotor" THEN 4533 ELSE 4534

\* str.lower() on the letters that occur.
LowerChar(c) ==
    CASE c = "I" -> "i" [] c = "C" -> "c" [] c = "O" -> "o" [] c = "M" -> "m"
      [] c = "Y" -> "y" [] OTHER -> c
lower(t) == [i \in 1..Len(t) |-> LowerChar(t[i])]

\* sub in t.
Contains(t, sub) ==
    \E i \in 1..(Len(t) - Len(sub) + 1) : SubSeq(t, i, i + Len(sub) - 1) = sub

\* str.strip(): the text without its leading and trailing blanks.
strip(t) ==
    LET inked == {i \in 1..Len(t) : t[i] # " "}
    IN  IF inked = {} THEN <<>>
        ELSE SubSeq(t, CHOOSE i \in inked : \A j \in inked : i <= j,
                       CHOOSE i \in inked : \A j \in inked : i >= j)

\* The empty string among the arguments, and line 466 dropping it.
EmptyArg == <<>>
IsArg(a) == a # EmptyArg
DropEmpty(args) == SelectSeq(args, IsArg)

\* if value: args.append(f"--flag={value}")  (radio branch).
Opt(flag, value) == IF value = "" THEN <<>> ELSE << <<flag, value>> >>

\* args.append(f"--flag={value}" if value else "")  (rotor and amplifier).
OptOrEmpty(flag, value) == IF value = "" THEN <<EmptyArg>> ELSE << <<flag, value>> >>

\* Line 446: "icom" in data.get("mfg","").lower().
IsIcom(data) == Contains(lower(data.mfg), <<"i", "c", "o", "m">>)

\* Lines 446-449: the CI-V address, trimmed, when it is not empty.
civ_args(data, cfg) ==
    IF IsIcom(data) /\ strip(cfg.civ) # <<>>
    THEN << <<"--civaddr", strip(cfg.civ)>> >> ELSE <<>>

\* Lines 436-456.
radio_args(data, cfg) ==
    << <<"--model", data.id>> >>
    \o Opt("--rig-file", cfg.device)
    \o civ_args(data, cfg)
    \o (IF cfg.ptt THEN << <<"--ptt-file", cfg.ptt_port>>, <<"--ptt-type", cfg.ptt_type>> >>
        ELSE <<>>)
    \o Opt("--serial-speed", cfg.baud)
    \o << <<"--port", TcpPort("radio")>> >>

\* Lines 457-460 and 461-464: neither branch reads the model combo box.
device_args(tab, cfg) ==
    OptOrEmpty(IF tab = "rotor" THEN "--rot-file" ELSE "--amp-file", cfg.device)
    \o OptOrEmpty("--serial-speed", cfg.baud)
    \o << <<"--port", TcpPort(tab)>> >>

\* _start_runner up to its call of runner.start(args): whether the call is
\* made, and with what.
start_request(tab, data, cfg) ==
    IF tab = "radio" /\ data = NoItem
    THEN [issued |-> FALSE, args |-> <<>>]
    ELSE [issued |-> TRUE,
          args |-> DropEmpty(IF tab = "radio" THEN radio_args(data, cfg)
                             ELSE device_args(tab, cfg))
                   \o << <<"-vvvv">> >>]

InitArgs ==
    /\ fsys = NoTree
    /\ before = NoTree
    /\ \E k \in Kinds : \E d \in Items : \E c \in Configs :
           job = [op |-> "start_request", tab |-> k, data |-> d, cfg |-> c, done |-> FALSE,
                  req |-> [issued |-> FALSE, args |-> <<>>]]
    /\ IdleApp

BuildArgs ==
    /\ job.op = "start_request" /\ ~job.done
    /\ job' = [job EXCEPT !.done = TRUE, !.req = start_request(job.tab, job.data, job.cfg)]
    /\ UNCHANGED <<fsys, before, runvars, appvars, catvars>>

NextArgs == BuildArgs

SpecArgs == InitArgs /\ [][NextArgs]_vars

(***************************************************************************)
(* The catalogs: the list threads, their result handlers, the restore of   *)
(* the stored selection and the combo boxes. The radio tab's box moves its *)
(* Connect button; the rotor and amplifier boxes move no button.           *)
(***************************************************************************)
\* What rigctld --list of the installed release parses to (parse_rig_list,
\* lines 143-165): records of id, manufacturer and model.
RigList == << [id |-> 1, mfg |-> "Yaesu", model |-> "FT-817"],
             [id |-> 3073, mfg |-> "Icom", model |-> "IC-7300"] >>

\* What rotctld --list and ampctld --list parse to (parse_device_list,
\* lines 166-188).
RotList == << [id |-> 1, mfg |-> "Hamlib", model |-> "Dummy"],
             [id |-> 202, mfg |-> "Hamlib", model |-> "EasycommII"] >>
AmpList == << [id |-> 1, mfg |-> "Hamlib", model |-> "Dummy"],
             [id |-> 201, mfg |-> "Elecraft", model |-> "KPA1500"] >>
Catalog(k) == IF k = "radio" THEN RigList ELSE IF k = "rotor" THEN RotList ELSE AmpList

\* The slots connected to the message signal of a list thread's own
\* WorkerSignals object (lines 204, 220, 236): load_rig_list and
\* load_rotor_amp_list connect result only (lines 491-505).
ListMessageSlots == <<>>

\* signals.message.emit(text): one call per connected slot.
ListMessage(k, text) == [c \in 1..Len(ListMessageSlots) |-> <<k, "log", text>>]

\* A list thread of kind k runs to its end: it emits one result of n records,
\* queued for the main thread, and shown is what its message reached.
ListThreadEmits(k, n, shown) ==
    /\ ~closed
    /\ IF k = "radio"
       THEN /\ rig_probes > 0
            /\ rig_probes' = rig_probes - 1
            /\ rig_results' = Append(rig_results, n)
            /\ UNCHANGED <<dev_probes, dev_results>>
       ELSE /\ dev_probes[k] > 0
            /\ dev_probes' = [dev_probes EXCEPT ![k] = @ - 1]
            /\ dev_results' = [dev_results EXCEPT ![k] = Append(@, n)]
            /\ UNCHANGED <<rig_probes, rig_results>>
    /\ out' = shown
    /\ UNCHANGED <<fsys, fnvars, runvars, radio_combo, dl, closed, plan,
                   settings, dev_combo, restore_timer>>

\* run, lines 206-210 (rotor 222-226, amplifier 238-242): no executable.
ListNotFound(k) ==
    /\ None \in find_exe(fsys, ExeOf(k))
    /\ ListThreadEmits(k, 0, ListMessage(k, "not found"))

\* run, the except branch (lines 215-217, 231-233, 247-249): the listing timed
\* out or could not be executed.
ListFails(k) ==
    /\ find_exe(fsys, ExeOf(k)) # {None}
    /\ ListThreadEmits(k, 0, ListMessage(k, "failed"))

\* run, the try branch (lines 211-214, 227-230, 243-246): the listing parses to
\* the records of the release.
ListParsed(k) ==
    /\ find_exe(fsys, ExeOf(k)) # {None}
    /\ ListThreadEmits(k, Len(Catalog(k)), <<>>)

ListThreadRuns(k) == ListNotFound(k) \/ ListFails(k) \/ ListParsed(k)

\* RigctlListThread.run (lines 205-217).
RigProbeRuns == ListThreadRuns("radio")

\* _on_radio_changed (lines 514-517), for the Connect button: enabled exactly
\* when the new current item carries data.
on_radio_changed(enabled, idx) == IF idx >= 0 THEN TRUE ELSE FALSE

\* _on_rig_list_result (lines 495-498): clear() moves a current index to -1 and
\* the first addItem moves it to 0; each move runs _on_radio_changed.
RigResultHandled ==
    /\ ~closed
    /\ rig_results # <<>>
    /\ rig_results' = Tail(rig_results)
    /\ LET n == Head(rig_results)
           cleared == IF radio_combo.index >= 0
                      THEN on_radio_changed(connectEnabled["radio"], -1)
                      ELSE connectEnabled["radio"]
           filled == IF n > 0 THEN on_radio_changed(cleared, 0) ELSE cleared
       IN  /\ radio_combo' = [count |-> n, index |-> IF n > 0 THEN 0 ELSE -1]
           /\ connectEnabled' = [connectEnabled EXCEPT !["radio"] = filled]
    /\ out' = <<>>
    /\ UNCHANGED <<fsys, fnvars, catvars, process, procs, events, stopEnabled, rig_probes, dl, closed, plan>>

\* The user picks another radio: currentIndexChanged runs _on_radio_changed.
SelectRadio(i) ==
    /\ UsesTabs
    /\ i < radio_combo.count /\ i # radio_combo.index
    /\ radio_combo' = [radio_combo EXCEPT !.index = i]
    /\ connectEnabled' = [connectEnabled EXCEPT !["radio"] =
                              on_radio_changed(connectEnabled["radio"], i)]
    /\ out' = <<>>
    /\ UNCHANGED <<fsys, fnvars, catvars, process, procs, events, stopEnabled, rig_probes,
                   rig_results, dl, closed, plan>>

\* _on_rot_list_result and _on_amp_list_result (lines 506-513): clear(), then
\* addItem per record; the first addItem to an empty box makes it current.
DevResultHandled(k) ==
    /\ ~closed
    /\ dev_results[k] # <<>>
    /\ dev_results' = [dev_results EXCEPT ![k] = Tail(@)]
    /\ LET n == Head(dev_results[k])
       IN  dev_combo' = [dev_combo EXCEPT ![k] = [count |-> n,
                                                  index |-> IF n > 0 THEN 0 ELSE -1]]
    /\ out' = <<>>
    /\ UNCHANGED <<fsys, fnvars, runvars, appvars, settings, dev_probes, restore_timer>>

\* The user picks another rotor or amplifier.
SelectDev(k, i) ==
    /\ UsesTabs
    /\ i < dev_combo[k].count /\ i # dev_combo[k].index
    /\ dev_combo' = [dev_combo EXCEPT ![k].index = i]
    /\ out' = <<>>
    /\ UNCHANGED <<fsys, fnvars, runvars, appvars, settings, dev_probes, dev_results,
                   restore_timer>>

\* The combo box of a kind.
ComboOf(k) == IF k = "radio" THEN radio_combo ELSE dev_combo[k]

\* restore_selected_items, lines 343-347 for one box: the first item whose id
\* is the stored one becomes current; without one nothing is set.
Restored(k, combo, id_value) ==
    LET i == FirstHit({j \in 1..combo.count : Catalog(k)[j].id = id_value})
    IN  IF i = 0 THEN combo ELSE [combo EXCEPT !.index = i - 1]

\* The single-shot timer of line 338 fires: restore_selected_items (lines
\* 339-347) on the three boxes; a move of the radio box runs _on_radio_changed.
restore_selected_items ==
    /\ ~closed
    /\ restore_timer
    /\ restore_timer' = FALSE
    /\ LET radio == Restored("radio", radio_combo, settings["radio"])
       IN  /\ radio_combo' = radio
           /\ connectEnabled' = [connectEnabled EXCEPT !["radio"] =
                                    IF radio.index # radio_combo.index
                                    THEN on_radio_changed(@, radio.index) ELSE @]
    /\ dev_combo' = [k \in DevKinds |-> Restored(k, dev_combo[k], settings[k])]
    /\ out' = <<>>
    /\ UNCHANGED <<fsys, fnvars, process, procs, events, stopEnabled, rig_probes,
                   rig_results, dl, closed, plan, settings, dev_probes, dev_results>>

(***************************************************************************)
(* The install controls.                                                   *)
(*   dl.enabled : the download button                                      *)
(*   dl.dialog  : the application-modal progress dialog is up              *)
(*   dl.conns   : connections made so far on DownloadThread.signals, the   *)
(*                one WorkerSignals object of the class (line 196); every  *)
(*                click adds one of each kind (lines 527-529)              *)
(*   dl.threads : the installs started whose thread has not finished       *)
(*   dl.queue   : the thread signals queued for the main thread            *)
(*   dl.handled : the installs for which _on_download_finished has run     *)
(* An install is numbered by the click that started it.                    *)
(***************************************************************************)
\* What the feed and the network may deliver to an install of a session.
AppInputs ==
    {[feed |-> FALSE, assets |-> <<>>, zipball |-> FALSE, get |-> FALSE,
      total |-> 0, chunks |-> 0, failAt |-> 0, zip |-> Corrupt],
     [feed |-> TRUE, assets |-> <<[zip |-> TRUE, w64 |-> TRUE]>>, zipball |-> TRUE, get |-> TRUE,
      total |-> 1, chunks |-> 1, failAt |-> 0,
      zip |-> [ok |-> TRUE, layout |-> "versioned", exes |-> Exes]],
     [feed |-> TRUE, assets |-> <<>>, zipball |-> TRUE, get |-> TRUE,
      total |-> 0, chunks |-> 1, failAt |-> 0, zip |-> Corrupt]}

\* n copies of x: one slot call per connection.
Copies(n, x) == [c \in 1..n |-> x]

\* A signal emitted once reaches every connection made so far.
Emitted(conns, sigs, i) ==
    IF i > Len(sigs) THEN <<>> ELSE Copies(conns, sigs[i])

\* _on_download_clicked (lines 522-530).
on_download_clicked ==
    /\ UserCan
    /\ dl.enabled
    /\ dl.conns < plan.installs
    /\ dl' = [dl EXCEPT !.dialog = TRUE, !.enabled = FALSE, !.conns = @ + 1,
                        !.threads = @ \cup {dl.conns + 1}]
    /\ out' = <<>>
    /\ UNCHANGED <<fsys, fnvars, catvars, runvars, radio_combo, rig_probes, rig_results, closed, plan>>

\* The percentage the progress slot sets (line 527).
Percent(p) == (p[1] * 100) \div p[2]

\* DownloadThread.run (lines 197-201): the install, its progress values, then
\* message and finished, each to every connection.
DownloadThreadRuns(t) ==
    /\ ~closed
    /\ t \in dl.threads
    /\ \E in \in AppInputs :
         LET r == download_latest_release(fsys, in)
             prog == [c \in 1..Len(r.progress) |-> <<"progress", t, Percent(r.progress[c])>>]
             sigs == prog \o << <<"message", t, r.ok>>, <<"finished", t, 0>> >>
             posted == Emitted(dl.conns, sigs, 1) \o Emitted(dl.conns, sigs, 2)
                       \o Emitted(dl.conns, sigs, 3)
         IN  /\ fsys' = r.fs
             /\ dl' = [dl EXCEPT !.threads = @ \ {t}, !.queue = @ \o posted]
    /\ out' = <<>>
    /\ UNCHANGED <<fnvars, catvars, runvars, radio_combo, rig_probes, rig_results, closed, plan>>

\* The main thread handles the oldest queued install signal: the progress
\* slot (the dialog closes itself at its maximum), _append_output for the
\* message, _on_download_finished (lines 531-535) for finished.
DownloadSignalHandled ==
    /\ ~closed
    /\ dl.queue # <<>>
    /\ LET e == Head(dl.queue)
       IN  CASE e[1] = "progress" ->
                  /\ dl' = [dl EXCEPT !.queue = Tail(@),
                                      !.dialog = IF e[3] >= 100 THEN FALSE ELSE @]
                  /\ out' = <<>>
                  /\ UNCHANGED <<rig_probes, dev_probes>>
            [] e[1] = "message" ->
                  /\ dl' = [dl EXCEPT !.queue = Tail(@)]
                  /\ out' = << <<"install", "log", e[3]>> >>
                  /\ UNCHANGED <<rig_probes, dev_probes>>
            [] OTHER ->
                  /\ dl' = [dl EXCEPT !.queue = Tail(@), !.dialog = FALSE, !.enabled = TRUE,
                                      !.handled = @ \cup {e[2]}]
                  /\ rig_probes' = rig_probes + 1
                  /\ dev_probes' = [k \in DevKinds |-> dev_probes[k] + 1]
                  /\ out' = <<>>
    /\ UNCHANGED <<fsys, fnvars, runvars, radio_combo, rig_results, closed, plan,
                   settings, dev_combo, dev_results, restore_timer>>

\* The user presses Cancel on the progress dialog: it closes, nothing else.
DialogCancelled ==
    /\ ~closed
    /\ dl.dialog
    /\ dl' = [dl EXCEPT !.dialog = FALSE]
    /\ out' = <<>>
    /\ UNCHANGED <<fsys, fnvars, catvars, runvars, radio_combo, rig_probes, rig_results, closed, plan>>

\* closeEvent (lines 536-538) and main (lines 563-569): the window closes and
\* the application leaves. Its objects, queues and daemon reader threads go
\* with it; the child processes are not signalled and stay as they are.
GoneWithApp(ps) == [i \in 1..Len(ps) |->
                      [ps[i] EXCEPT !.reader = IF @ = "done" THEN "done" ELSE "none"]]

\* save_settings, the ids (lines 540-542, 549-551, 554-556): the id of the
\* current item, "" when the box has none.
CurrentId(k, combo) == IF combo.index >= 0 THEN Catalog(k)[combo.index + 1].id ELSE 0
save_settings == [k \in Kinds |-> CurrentId(k, ComboOf(k))]

closeEvent ==
    /\ UserCan
    /\ closed' = TRUE
    /\ process' = [k \in Kinds |-> 0]
    /\ procs' = [k \in Kinds |-> GoneWithApp(procs[k])]
    /\ events' = [k \in Kinds |-> <<>>]
    /\ connectEnabled' = [k \in Kinds |-> FALSE]
    /\ stopEnabled' = [k \in Kinds |-> FALSE]
    /\ radio_combo' = [count |-> 0, index |-> -1]
    /\ rig_probes' = 0
    /\ rig_results' = <<>>
    /\ dl' = [enabled |-> FALSE, dialog |-> FALSE, conns |-> 0, threads |-> {},
              queue |-> <<>>, handled |-> {}]
    /\ out' = <<>>
    /\ settings' = save_settings
    /\ dev_combo' = [k \in DevKinds |-> [count |-> 0, index |-> -1]]
    /\ dev_probes' = [k \in DevKinds |-> 0]
    /\ dev_results' = [k \in DevKinds |-> <<>>]
    /\ restore_timer' = FALSE
    /\ UNCHANGED <<fsys, fnvars, plan>>

(***************************************************************************)
(* The application.                                                        *)
(***************************************************************************)
Installed == [root |-> TRUE, sub |-> [d \in Subs |-> IF d = 1 THEN FullDir(1) ELSE NoDir],
              bin |-> {}, archive |-> "full"]

\* The sessions explored: one that runs daemons, one that installs, one that
\* does both once. They begin with nothing stored; the steps of the rotor and
\* amplifier list threads and of the restore timer, which move nothing a
\* runner or an install reads, are followed in the catalog sessions.
Plans == {[spawns |-> MaxSpawns, installs |-> 0],
          [spawns |-> 1, installs |-> 1],
          [spawns |-> 0, installs |-> MaxInstalls]}

Init ==
    /\ fsys \in {NoTree, Installed}
    /\ job = [op |-> "app"]
    /\ before = NoTree
    /\ process = [k \in Kinds |-> 0]
    /\ procs = [k \in Kinds |-> <<>>]
    /\ events = [k \in Kinds |-> <<>>]
    /\ connectEnabled = [k \in Kinds |-> TRUE]
    /\ stopEnabled = [k \in Kinds |-> FALSE]
    /\ radio_combo = [count |-> 0, index |-> -1]
    /\ rig_probes = 1
    /\ rig_results = <<>>
    /\ dl = [enabled |-> TRUE, dialog |-> FALSE, conns |-> 0, threads |-> {},
             queue |-> <<>>, handled |-> {}]
    /\ closed = FALSE
    /\ out = <<>>
    /\ plan \in Plans
    /\ InitCatalogs
    /\ settings = [k \in Kinds |-> 0]

Next ==
    \/ \E k \in Kinds : StartNoData(k)
    \/ \E k \in Kinds : start(k)
    \/ \E k \in Kinds : stop_runner(k)
    \/ \E k \in Kinds : \E i \in 1..Len(procs[k]) : ProcessExit(k, i)
    \/ \E k \in Kinds : \E i \in 1..Len(procs[k]) : ReaderLine(k, i)
    \/ \E k \in Kinds : \E i \in 1..Len(procs[k]) : ReaderEof(k, i)
    \/ \E k \in Kinds : Deliver(k)
    \/ RigProbeRuns
    \/ RigResultHandled
    \/ \E i \in 0..(Len(RigList) - 1) : SelectRadio(i)
    \/ on_download_clicked
    \/ \E t \in dl.threads : DownloadThreadRuns(t)
    \/ DownloadSignalHandled
    \/ DialogCancelled
    \/ closeEvent

Spec == Init /\ [][Next]_vars

\* The scheduling the runners rely on: a process that was sent terminate()
\* exits, a reader thread whose process has exited gets to run its last step,
\* and the main thread's event loop handles what is queued for it.
TermExit(k) == \E i \in 1..Len(procs[k]) : procs[k][i].term /\ ProcessExit(k, i)
ReaderFinishes(k) == \E i \in 1..Len(procs[k]) : ReaderEof(k, i)

Fairness ==
    \A k \in Kinds : WF_vars(TermExit(k)) /\ WF_vars(ReaderFinishes(k)) /\ WF_vars(Deliver(k))

SpecFair == Init /\ [][Next]_vars /\ Fairness

(***************************************************************************)
(* Catalog sessions: the three list threads, the restore timer, the user's *)
(* selections, a Connect click that finds no radio selected, and the close *)
(* of the window, on a settings store that holds any id per kind: none, an *)
(* id of the release's catalog, or the id of a model the release does not  *)
(* list. job keeps the ids the store held when the session began.          *)
(***************************************************************************)
StoredIds(k) == {0, 99} \cup {Catalog(k)[i].id : i \in 1..Len(Catalog(k))}

InitCatalog ==
    /\ fsys \in {NoTree, Installed}
    /\ settings \in {st \in [Kinds -> UNION {StoredIds(k) : k \in Kinds}] :
                        \A k \in Kinds : st[k] \in StoredIds(k)}
    /\ job = [op |-> "catalog", stored |-> settings]
    /\ before = NoTree
    /\ process = [k \in Kinds |-> 0]
    /\ procs = [k \in Kinds |-> <<>>]
    /\ events = [k \in Kinds |-> <<>>]
    /\ connectEnabled = [k \in Kinds |-> TRUE]
    /\ stopEnabled = [k \in Kinds |-> FALSE]
    /\ radio_combo = [count |-> 0, index |-> -1]
    /\ rig_probes = 1
    /\ rig_results = <<>>
    /\ dl = [enabled |-> TRUE, dialog |-> FALSE, conns |-> 0, threads |-> {},
             queue |-> <<>>, handled |-> {}]
    /\ closed = FALSE
    /\ out = <<>>
    /\ plan = [spawns |-> 1, installs |-> 0]
    /\ InitCatalogs

NextCatalog ==
    \/ \E k \in Kinds : ListThreadRuns(k)
    \/ RigResultHandled
    \/ \E k \in DevKinds : DevResultHandled(k)
    \/ \E i \in 0..(Len(RigList) - 1) : SelectRadio(i)
    \/ \E k \in DevKinds : \E i \in 0..(Len(Catalog(k)) - 1) : SelectDev(k, i)
    \/ restore_selected_items
    \/ \E k \in Kinds : StartNoData(k)
    \/ closeEvent

SpecCatalog == InitCatalog /\ [][NextCatalog]_vars

(***************************************************************************)
(* Reinstall sessions: a catalog session of a user who stored a selection  *)
(* for every kind and installs a release once; the list threads run at     *)
(* startup and again after the install (lines 533-535).                    *)
(***************************************************************************)
InitReinstall ==
    /\ fsys \in {NoTree, Installed}
    /\ \E n \in 1..Len(RigList) : settings = [k \in Kinds |-> Catalog(k)[n].id]
    /\ job = [op |-> "catalog", stored |-> settings]
    /\ before = NoTree
    /\ process = [k \in Kinds |-> 0]
    /\ procs = [k \in Kinds |-> <<>>]
    /\ events = [k \in Kinds |-> <<>>]
    /\ connectEnabled = [k \in Kinds |-> TRUE]
    /\ stopEnabled = [k \in Kinds |-> FALSE]
    /\ radio_combo = [count |-> 0, index |-> -1]
    /\ rig_probes = 1
    /\ rig_results = <<>>
    /\ dl = [enabled |-> TRUE, dialog |-> FALSE, conns |-> 0, threads |-> {},
             queue |-> <<>>, handled |-> {}]
    /\ closed = FALSE
    /\ out = <<>>
    /\ plan = [spawns |-> 0, installs |-> 1]
    /\ InitCatalogs

NextReinstall ==
    \/ \E k \in Kinds : ListThreadRuns(k)
    \/ RigResultHandled
    \/ \E k \in DevKinds : DevResultHandled(k)
    \/ restore_selected_items
    \/ on_download_clicked
    \/ \E t \in dl.threads : DownloadThreadRuns(t)
    \/ DownloadSignalHandled
    \/ DialogCancelled
    \/ closeEvent

SpecReinstall == InitReinstall /\ [][NextReinstall]_vars

(***************************************************************************)
(* Claims about the resolver and the installer.                            *)
(***************************************************************************)
Holders(fs, name) == {d \in Subs : name \in fs.sub[d].bin}
Newest(fs, S) == {d \in S : \A e \in S : fs.sub[e].mtime <= fs.sub[d].mtime}
Least(S) == CHOOSE i \in S : \A j \in S : i <= j

\* C4: an install that fails at the feed query, the asset selection or the
\* download never clears the root: the subdirectories and the root's bin are as
\* they were, and every executable name resolves as before the attempt.
C4_FailedDownloadKeepsTree ==
    (job.op = "install" /\ job.done /\ ~job.res.ok /\ job.res.stage \in {"feed", "download"})
    => /\ ~job.res.cleared
       /\ fsys.sub = before.sub
       /\ fsys.bin = before.bin
       /\ \A n \in Exes : find_exe(fsys, n) = find_exe(before, n)

\* C4 witness: a download that broke at a chunk, over a tree whose executables resolve.
C4_Witness ==
    /\ job.op = "install" /\ job.done /\ job.res.stage = "download"
    /\ job.in.failAt > 0
    /\ before.sub[1].bin = Exes
    /\ fsys.archive = "partial"
    /\ find_exe(fsys, RotExe) = {<<1, RotExe>>}

\* C5: when two or more subdirectories hold bin/<name>, find_exe(name) returns
\* bin/<name> under a most recently modified one of them, for each of the
\* three executable names.
C5_ResolvesNewestHolder ==
    (job.op = "find_exe" /\ job.done /\ Cardinality(Holders(fsys, job.name)) >= 2)
    => \E d \in Newest(fsys, Holders(fsys, job.name)) : job.path = <<d, job.name>>

\* C6: the chosen download is the first zip asset carrying the platform marker
\* if there is one, else the first zip asset, else the source archive, and
\* with none of these the install fails.
C6_AssetPreference ==
    (job.op = "install" /\ job.done /\ job.in.feed)
    => LET a == job.in.assets
           marked == {i \in 1..Len(a) : a[i].zip /\ a[i].w64}
           zips == {i \in 1..Len(a) : a[i].zip}
       IN  /\ marked # {} => job.res.url = <<"asset", Least(marked)>>
           /\ (marked = {} /\ zips # {}) => job.res.url = <<"asset", Least(zips)>>
           /\ (zips = {} /\ job.in.zipball) => job.res.url = <<"zipball">>
           /\ (zips = {} /\ ~job.in.zipball) => (job.res.url = None /\ ~job.res.ok)

\* C6 witness: a plain zip listed before a marker-bearing zip, and the second chosen.
C6_Witness ==
    /\ job.op = "install" /\ job.done /\ job.in.feed
    /\ Len(job.in.assets) = 2
    /\ job.in.assets[1] = [zip |-> TRUE, w64 |-> FALSE]
    /\ job.in.assets[2] = [zip |-> TRUE, w64 |-> TRUE]
    /\ job.res.url = <<"asset", 2>>
    /\ job.res.ok

\* C11: an install that reports success leaves a tree in which at least one of
\* the three daemon executables resolves; an extraction that went through
\* without any of them resolvable afterwards is reported as a failure.
C11_SuccessMeansResolvable ==
    (job.op = "install" /\ job.done /\ job.res.ok)
    => \E n \in Exes : find_exe(fsys, n) # {None}

\* C12: a download that fails after the archive file was opened for writing
\* leaves no partially written archive in the root.
C12_FailedDownloadRemovesPartial ==
    (job.op = "install" /\ job.done /\ ~job.res.ok
        /\ job.in.feed /\ job.res.url # None /\ job.in.get /\ job.in.failAt # 0)
    => fsys.archive # "partial"

\* C18: every progress value downloaded/total of an install lies in [0,1], the
\* values do not decrease, and with no total (Content-Length absent or 0) the
\* callback is never called.
C18_ProgressIsFraction ==
    (job.op = "install" /\ job.done)
    => LET p == job.res.progress
       IN  /\ \A c \in 1..Len(p) : p[c][2] > 0 /\ 0 <= p[c][1] /\ p[c][1] <= p[c][2]
           /\ \A c \in 1..(Len(p) - 1) : p[c][1] * p[c + 1][2] <= p[c + 1][1] * p[c][2]
           /\ job.in.total = 0 => p = <<>>

\* C18, without the upper end of the interval: the values are positive, do not
\* decrease, and none is passed when the total is unknown.
C18_ProgressGrows ==
    (job.op = "install" /\ job.done)
    => LET p == job.res.progress
       IN  /\ \A c \in 1..Len(p) : p[c][2] > 0 /\ 0 <= p[c][1]
           /\ \A c \in 1..(Len(p) - 1) : p[c][1] * p[c + 1][2] <= p[c + 1][1] * p[c][2]
           /\ job.in.total = 0 => p = <<>>

(***************************************************************************)
(* Claims about the runners and the install controls.                      *)
(***************************************************************************)
Live(k) == {i \in 1..Len(procs[k]) : procs[k][i].alive}
Others(k) == Kinds \ {k}
Said(what) == \E j \in 1..Len(out) : out[j][1] \in Kinds /\ out[j][Len(out[j])] = what

\* C1: a kind never has two live child processes.
C1_OneLiveChildPerKind == \A k \in Kinds : Cardinality(Live(k)) <= 1

\* C1, second half: a start on a kind that holds a process is reported as
\* already running, spawns nothing and leaves the handle as it is.
C1_SecondStartRejected ==
    [][\A k \in Kinds : (start(k) /\ process[k] # 0)
          => (procs' = procs /\ process' = process /\ Said("Already running")')]_vars

\* C2: no process gets a second stopped signal, none gets one before it has
\* exited, and a process whose reader has run to its end has got exactly one;
\* after the exit the only thing between the process and its signal is the
\* reader's last step, which is then enabled.
C2_OneStoppedPerLifetime ==
    \A k \in Kinds : \A i \in 1..Len(procs[k]) :
        LET p == procs[k][i]
        IN  /\ p.stops <= 1
            /\ p.stops = 1 => (~p.alive /\ p.reader = "done")
            /\ p.reader = "done" => p.stops = 1
            /\ (p.reader = "read" /\ ~p.alive) => ENABLED ReaderEof(k, i)
            /\ Cardinality({j \in 1..Len(events[k]) : events[k][j] = <<"stopped", i>>}) <= p.stops

\* C2 witness: Stop was pressed on a running process (more than once, the
\* button stays enabled), the process is gone and its one signal is queued.
C2_Witness ==
    \E k \in Kinds :
        /\ Len(procs[k]) = 1
        /\ procs[k][1].term /\ ~procs[k][1].alive
        /\ procs[k][1].reader = "done" /\ procs[k][1].stops = 1
        /\ events[k] = << <<"stopped", 1>> >>
        /\ out = <<>>

\* C3: Stop on a kind that holds no process changes nothing and puts no line
\* in the output view.
C3_IdleStopIsSilent ==
    [][\A k \in Kinds : (stop_runner(k) /\ process[k] = 0)
          => (out' = <<>> /\ UNCHANGED <<fsys, runvars, radio_combo, rig_probes,
                                         rig_results, dl, closed>>)]_vars

\* C7: every live child process is the one its kind's runner holds, with a
\* reader thread on it.
C7_NoOrphan ==
    \A k \in Kinds : \A i \in Live(k) : process[k] = i /\ procs[k][i].reader = "read"

\* C8: an install is in flight from its click until _on_download_finished has
\* run for it; there is at most one, and while there is one the download
\* button is disabled.
InFlight == (1..dl.conns) \ dl.handled
C8_OneInstallInFlight ==
    /\ Cardinality(InFlight) <= 1
    /\ InFlight # {} => ~dl.enabled

\* C9: a start rejected because the executable is missing or because the
\* spawn fails leaves no handle, spawns nothing, emits neither started nor
\* stopped, and leaves the Connect button and the empty handle a next start needs.
C9_RejectedStartStaysIdle ==
    [][\A k \in Kinds : (StartNotFound(k) \/ StartPopenFails(k))
          => /\ process'[k] = 0
             /\ procs' = procs
             /\ events' = events
             /\ ~Said("started")'
             /\ connectEnabled'[k] /\ stopEnabled' = stopEnabled]_vars

\* C9 witness: a start was just refused for a missing executable; the kind is idle.
C9_Witness ==
    \E k \in Kinds :
        /\ Said("not found!") /\ out[1] = Starting(k)
        /\ process[k] = 0 /\ procs[k] = <<>> /\ events[k] = <<>>
        /\ connectEnabled[k] /\ ~stopEnabled[k]

\* C10: a step of one kind (a start in any outcome, a stop, a process exit, a
\* reader step, a handled signal) leaves the other kinds' handle, processes,
\* queued signals and buttons as they are; and whether Stop or a spawning
\* start of a kind can happen does not depend on the other kinds.
KindStep(k) ==
    \/ StartNoData(k) \/ start(k) \/ stop_runner(k) \/ Deliver(k)
    \/ \E i \in 1..Len(procs[k]) : ProcessExit(k, i) \/ ReaderLine(k, i) \/ ReaderEof(k, i)

KindState(k) == <<process[k], procs[k], events[k], connectEnabled[k], stopEnabled[k]>>

C10_Frame ==
    \A k \in Kinds : KindStep(k) => \A j \in Others(k) : KindState(j)' = KindState(j)

C10_Enabled ==
    \A k \in Kinds :
        /\ (ENABLED stop_runner(k)) <=> (UsesTabs /\ stopEnabled[k])
        /\ (ENABLED Deliver(k)) <=> (~closed /\ events[k] # <<>>)
        /\ Spawned < plan.spawns =>
             ((ENABLED StartSpawns(k)) <=>
                 (UsesTabs /\ connectEnabled[k] /\ HasData(k) /\ process[k] = 0
                  /\ find_exe(fsys, ExeOf(k)) # {None}))

C10_KindsIsolated == []C10_Enabled /\ [][C10_Frame]_vars

\* C10 witness: a daemon of one kind was just started while another kind's
\* daemon is running with a signal of its reader waiting in the queue.
C10_Witness ==
    \E k \in Kinds : \E j \in Others(k) :
        /\ Said("started") /\ out[1] = Starting(k)
        /\ process[k] = 1 /\ procs[k][1].alive
        /\ process[j] = 1 /\ procs[j][1].alive /\ procs[j][1].reader = "read"
        /\ events[j] # <<>>

\* C16: while the application runs, a process that is alive is still the one
\* its runner holds: nothing but the reader loop, after the process has
\* exited, takes a handle away.
C16_LiveProcessKeepsHandle ==
    ~closed => \A k \in Kinds : \A i \in Live(k) : process[k] = i

\* C16, the steps between states: a handle that is there before a step and
\* gone after it was cleared by the reader's last step on an exited process,
\* and Stop leaves the handle as it is.
C16_OnlyReaderClears ==
    [][\A k \in Kinds :
          /\ (process[k] # 0 /\ process'[k] = 0 /\ ~closed')
                => (ReaderEof(k, process[k]) /\ ~procs[k][process[k]].alive)
          /\ stop_runner(k) => process'[k] = process[k]]_vars

\* C17: Stop on a running process leaves the handle in place, and while the
\* handle is there a start is refused without a spawn; the handle goes only
\* once the process has exited. If the process obeys terminate() and the
\* reader and the event loop get to run, then, unless the window is closed
\* first, the runner lets go of the process and its stopped signal is handled,
\* which enables Connect for a start that the runner no longer refuses on
\* account of that process.
Held(k, i) == i <= Len(procs[k]) /\ process[k] = i
Stopping(k, i) == Held(k, i) /\ procs[k][i].term
StoppedDelivered(k, i) ==
    /\ i <= Len(procs[k])
    /\ process[k] # i /\ procs[k][i].reader = "done"
    /\ \A j \in 1..Len(events[k]) : events[k][j] # <<"stopped", i>>

C17_StaysRunning ==
    \A k \in Kinds :
        /\ (stop_runner(k) /\ process[k] # 0) => process'[k] = process[k]
        /\ (start(k) /\ process[k] # 0) => (procs' = procs /\ process' = process)
        /\ (process[k] # 0 /\ process'[k] # process[k] /\ ~closed')
              => ~procs[k][process[k]].alive
        /\ (Deliver(k) /\ Head(events[k])[1] = "stopped")
              => (connectEnabled'[k] /\ process'[k] # Head(events[k])[2])

C17_StopLeadsToIdle ==
    /\ [][C17_StaysRunning]_vars
    /\ \A k \in Kinds : \A i \in 1..MaxSpawns :
           Stopping(k, i) ~> (closed \/ StoppedDelivered(k, i))

\* C17 witness: a process that was stopped has exited, its stopped signal was
\* handled, the runner is idle and Connect is enabled again.
C17_Witness ==
    \E k \in Kinds :
        /\ ~closed
        /\ StoppedDelivered(k, 1) /\ procs[k][1].term
        /\ process[k] = 0 /\ connectEnabled[k] /\ ~stopEnabled[k]

(***************************************************************************)
(* Claims about catalog parsing.                                           *)
(***************************************************************************)
\* The records of the well-formed data lines among lines[from..], in order.
WellFormedAfter(lines, from) ==
    LET idx == {i \in from..Len(lines) : lines[i].shape = "data"}
        nth(n) == CHOOSE i \in idx : Cardinality({j \in idx : j < i}) = n - 1
    IN  [n \in 1..Cardinality(idx) |-> [id |-> lines[nth(n)].id]]

\* C19: the parse result is the records of the well-formed data lines after
\* the first header line, in order, malformed lines being passed over; a text
\* with no header line gives no record.
C19_RecordsAfterHeader ==
    (job.op \in {"parse_rig_list", "parse_device_list"} /\ job.done)
    => LET h == {i \in 1..Len(job.text) : job.text[i].marker}
       IN  IF h = {} THEN job.recs = <<>>
           ELSE job.recs = WellFormedAfter(job.text, Least(h) + 1)

\* C19, for texts that have a header line.
C19_RecordsAfterHeaderPresent ==
    (job.op \in {"parse_rig_list", "parse_device_list"} /\ job.done)
    => LET h == {i \in 1..Len(job.text) : job.text[i].marker}
       IN  h # {} => job.recs = WellFormedAfter(job.text, Least(h) + 1)

(***************************************************************************)
(* Claims about the argument vector of a start.                            *)
(***************************************************************************)
HasModelToken(args, id) ==
    \E j \in 1..Len(args) : args[j][1] = "--model" /\ args[j][2] = id

\* C20: for each of the three kinds, a start is issued only with a model
\* selected, and its argument vector carries the model token with the id of
\* the selected record.
C20_ArgsCarrySelectedModel ==
    (job.op = "start_request" /\ job.done /\ job.req.issued)
    => (job.data # NoItem /\ HasModelToken(job.req.args, job.data.id))

\* C20, for the radio tab alone.
C20_RadioArgsCarrySelectedModel ==
    (job.op = "start_request" /\ job.done /\ job.tab = "radio" /\ job.req.issued)
    => (job.data # NoItem /\ HasModelToken(job.req.args, job.data.id))

(***************************************************************************)
(* Claims about the catalogs and the stored selection.                     *)
(***************************************************************************)
ProbesOf(k) == IF k = "radio" THEN rig_probes ELSE dev_probes[k]
ResultsOf(k) == IF k = "radio" THEN rig_results ELSE dev_results[k]

\* A step of a list thread that found no executable or could not run it.
ProbeFailure(k) == ListNotFound(k) \/ ListFails(k)

\* The step queued exactly one result, the empty one, and the application
\* goes on.
OneEmptyResult(k) ==
    /\ ResultsOf(k)' = Append(ResultsOf(k), 0)
    /\ ProbesOf(k)' = ProbesOf(k) - 1
    /\ ~closed'

\* C13: for every kind, a list probe whose executable cannot be located, that
\* times out or that fails to execute delivers exactly one result, the empty
\* sequence, together with a notification shown to the caller, and raises
\* nothing.
C13_FailedProbeNotifies ==
    [][\A k \in Kinds : ProbeFailure(k) => (OneEmptyResult(k) /\ out' # <<>>)]_vars

\* C13 without the notification: one empty result per failed probe, no error.
C13_FailedProbeGivesOneEmptyResult ==
    [][\A k \in Kinds : ProbeFailure(k) => OneEmptyResult(k)]_vars

\* No item of the kind's box carries the stored id.
NoMatch(k) == \A j \in 1..ComboOf(k).count : Catalog(k)[j].id # settings[k]

\* C14: when the stored id of a kind is restored against a rebuilt catalog
\* none of whose records has that id, the kind's selection is unset afterwards.
C14_NoMatchLeavesUnset ==
    [][restore_selected_items
       => \A k \in Kinds : (ComboOf(k).count > 0 /\ NoMatch(k)) => ComboOf(k)'.index = -1]_vars

\* C14, what the restore itself does: without a match it moves no selection.
C14_NoMatchMovesNothing ==
    [][restore_selected_items
       => \A k \in Kinds : NoMatch(k) => ComboOf(k)' = ComboOf(k)]_vars

\* The catalog fetch of the kind has failed: its thread ran, its result was
\* handled and the box is empty.
FetchFailed(k) ==
    ~closed /\ ProbesOf(k) = 0 /\ ResultsOf(k) = <<>> /\ ComboOf(k).count = 0

\* C15: when the catalog fetch of a kind failed in the session, the id stored
\* for the kind before the session is still the stored id after the window is
\* closed, and a Connect click of the kind is not refused for want of a model.
C15_StoredIdSurvivesFailedFetch ==
    [][\A k \in Kinds : (FetchFailed(k) /\ job.stored[k] # 0)
          => /\ closeEvent => settings'[k] = job.stored[k]
             /\ ~StartNoData(k)]_vars

(***************************************************************************)
(* Claims about the flags of the argument vector.                          *)
(***************************************************************************)
Flagged(args, flag) == {j \in 1..Len(args) : args[j] # EmptyArg /\ args[j][1] = flag}

\* The verbosity flag is there once, as the last token, and no token is empty.
VerbosityLastNoEmpty(args) ==
    /\ Len(args) > 0
    /\ args[Len(args)] = <<"-vvvv">>
    /\ Cardinality(Flagged(args, "-vvvv")) = 1
    /\ \A j \in 1..Len(args) : args[j] # EmptyArg

\* The manufacturer is Icom, however it is capitalised.
IcomFamily(data) == lower(data.mfg) = <<"i", "c", "o", "m">>

\* C21: in every argument vector built for a start, the verbosity flag is
\* present exactly once as the last token and no token is empty; the CI-V
\* address flag is present only for the radio kind with a selected model of
\* the Icom family and a non-empty address field.
C21_FlagsWellFormed ==
    (job.op = "start_request" /\ job.done /\ job.req.issued)
    => /\ VerbosityLastNoEmpty(job.req.args)
       /\ Flagged(job.req.args, "--civaddr") # {}
            => (job.tab = "radio" /\ IcomFamily(job.data) /\ job.cfg.civ # <<>>)

\* C21, with the manufacturer test the code makes: a name that contains
\* "icom" in any capitalisation.
C21_FlagsWellFormedBySubstring ==
    (job.op = "start_request" /\ job.done /\ job.req.issued)
    => /\ VerbosityLastNoEmpty(job.req.args)
       /\ Flagged(job.req.args, "--civaddr") # {}
            => (job.tab = "radio" /\ IsIcom(job.data) /\ job.cfg.civ # <<>>)

(***************************************************************************)
(* Claims about the order of a lifetime's notifications.                   *)
(***************************************************************************)
\* The started notifications the step delivered for kind k.
StartedNow(k) == Cardinality({j \in 1..Len(out') : out'[j] = <<k, "started">>})

\* The queued signals of kind k that belong to lifetime i.
QueuedOf(k, i, what) == {j \in 1..Len(events[k]) : events[k][j] = <<what, i>>}

\* The stopped notifications of lifetime i delivered so far.
StopsDelivered(k, i) == procs[k][i].stops - Cardinality(QueuedOf(k, i, "stopped"))

\* The step delivers the oldest queued signal of kind k.
Delivers(k) == ~closed /\ events[k] # <<>> /\ events'[k] = Tail(events[k])

C22_Step(k) ==
    \* started is delivered once, when the lifetime begins, before any line
    \* or stopped of the lifetime is even queued
    /\ Len(procs'[k]) # Len(procs[k])
         => /\ StartedNow(k) = 1
            /\ \A j \in 1..Len(events'[k]) : events'[k][j][2] # Len(procs'[k])
    /\ StartedNow(k) > 0 => Len(procs'[k]) = Len(procs[k]) + 1
    \* what is delivered belongs to a lifetime that began, whose stopped was
    \* not delivered before
    /\ Delivers(k)
         => LET e == Head(events[k])
            IN  /\ e[2] \in 1..Len(procs[k])
                /\ StopsDelivered(k, e[2]) = 0
                \* stopped is the last: no line of the lifetime is queued
                \* behind it and its reader emits no more
                /\ e[1] = "stopped"
                     => /\ QueuedOf(k, e[2], "output") = {}
                        /\ QueuedOf(k, e[2], "stopped") = {1}
                        /\ procs[k][e[2]].reader = "done"
    \* a line is emitted only by a reader that has not emitted stopped
    /\ \A i \in 1..Len(procs[k]) :
          Cardinality(QueuedOf(k, i, "output"))' > Cardinality(QueuedOf(k, i, "output"))
             => procs[k][i].stops = 0

Settled(k) == ~closed /\ \A j \in 1..Len(events[k]) : events[k][j][1] # "stopped"

ButtonsFollowHandle(k) ==
    /\ stopEnabled[k] <=> process[k] # 0
    /\ process[k] # 0 => ~connectEnabled[k]

\* C23: for each kind, whenever no started or stopped notification waits for
\* delivery, Stop is enabled exactly when the kind's runner holds a process
\* handle, and Connect is disabled while it holds one.
C23_ButtonsFollowHandle == \A k \in Kinds : Settled(k) => ButtonsFollowHandle(k)

\* C23, for the rotor and the amplifier, as long as every reader thread of the
\* kind could be started.
C23_DeviceButtonsFollowHandle ==
    \A k \in DevKinds :
        (Settled(k) /\ \A i \in 1..Len(procs[k]) : procs[k][i].reader # "none")
        => ButtonsFollowHandle(k)

\* C23, for the radio under the same proviso; a change of the selected radio
\* while the daemon runs is enough to break it.
C23_RadioButtonsFollowHandle ==
    (Settled("radio") /\ \A i \in 1..Len(procs["radio"]) : procs["radio"][i].reader # "none")
    => ButtonsFollowHandle("radio")

(***************************************************************************)
(* Claims about the handling of an install's signals.                      *)
(***************************************************************************)
\* The step is the run of an install thread that queued each signal it
\* emitted (its progress values, its message, its finished) exactly once.
QueuedOnce ==
    \E in \in AppInputs :
        LET r == download_latest_release(fsys, in)
        IN  /\ fsys' = r.fs
            /\ Len(dl'.queue) = Len(dl.queue) + Len(r.progress) + 2

\* The step handles the finished signal of an install.
HandlesFinished == DownloadSignalHandled /\ Head(dl.queue)[1] = "finished"

C24_Step ==
    /\ \A t \in dl.threads : DownloadThreadRuns(t) => QueuedOnce
    /\ HandlesFinished => Head(dl.queue)[2] \notin dl.handled

\* C24: each install that finishes is handled exactly once, however many
\* installs ran before it in the session: each of its progress values, its
\* message and its finished signal reach their slot once, and the completion
\* handler does not run again for an install it has handled.
C24_InstallHandledOnce == [][C24_Step]_vars

\* C24, for the first install of a session.
C24_FirstInstallHandledOnce == [][dl.conns = 1 => C24_Step]_vars

(***************************************************************************)
(* Claims about the restore of the stored selection.                       *)
(***************************************************************************)
\* The step handles a list result of kind k.
ResultHandled(k) == IF k = "radio" THEN RigResultHandled ELSE DevResultHandled(k)

\* After the step the box of kind k is filled, the restore timer has fired,
\* and the record at position m is the first one with the stored id.
LoadedWith(k, m) ==
    /\ ~restore_timer'
    /\ m = FirstHit({j \in 1..ComboOf(k)'.count : Catalog(k)[j].id = settings[k]})
    /\ m # 0

\* C25: for each kind, once the catalog is loaded and has a record with the
\* stored id, that record is the selected one, whether the list result came
\* before or after the restore timer fired, and also after the catalog was
\* rebuilt following a reinstall.
C25_StoredIdSelected ==
    [][\A k \in Kinds : \A m \in 1..Len(Catalog(k)) :
          ((restore_selected_items \/ ResultHandled(k)) /\ LoadedWith(k, m))
          => ComboOf(k)'.index = m - 1]_vars

\* C25, for a catalog that was loaded when the timer fired.
C25_StoredIdSelectedByTimer ==
    [][\A k \in Kinds : \A m \in 1..Len(Catalog(k)) :
          (restore_selected_items /\ LoadedWith(k, m)) => ComboOf(k)'.index = m - 1]_vars

====
